---- MODULE Spec2Model ----
(***************************************************************************)
(* Model of the texta client: the TextAnalyzer component (App.jsx), its    *)
(* CSV sniffer parseCSV, the ApiService wrapper and the /analyze relay it  *)
(* talks to.                                                               *)
(*                                                                         *)
(* A JavaScript string on which the code does character work (split, trim, *)
(* includes, replace) is a sequence of one-character strings.  Labels,     *)
(* model names and messages, which the code only stores and compares, are  *)
(* TLA+ strings.                                                           *)
(***************************************************************************)
EXTENDS Integers, Sequences, FiniteSets, TLC

VARIABLES
    \* the useState cells of TextAnalyzer
    text, analysis, isLoading, selectedModel, availableModels, backendStatus,
    fileContent, modelComparison, isComparing, csvData, isProcessingCsv,
    csvResults, csvProgress, currentCsvIndex,
    \* where each async handler stands (a handler runs without interruption
    \* from one await to the next)
    connPc,         \* checkBackendConnection: "health", "models" or "done"
    analyzeCall,    \* handleAnalyze awaiting its call: Null or its closure
    compareRun,     \* handleCompareModels awaiting a call: Null or its closure and locals
    batchRun,       \* handleAnalyzeCSV awaiting a call: Null or its closure and locals
    \* the environment
    relayModels,    \* the relay's supported set, as GET /models lists it
    lastAlert,      \* the message of the last alert() shown
    \* history
    batchLog,       \* the /analyze requests and completions of the current or last batch run
    compareLog,     \* the same for the current or last comparison run
    ops,            \* number of user operations so far
    calls,          \* number of /analyze calls the handlers started so far issue
    earlyReturns,   \* number of clicks whose handler returned at its first line
    connResponse,   \* the response checkBackendConnection's last finished call got
    analyzeResponse, \* the response handleAnalyze's last finished call got
    \* React
    mounted,        \* FALSE once a render has thrown and React removed the tree
    \* the sniffer run on its own
    csvIn,          \* the file content handed to parseCSV
    csvOut,         \* what parseCSV did with it: Pending, a CsvBatch or a thrown error
    \* the export run on its own
    exportIn,       \* the result list handed to generateResultsCSV
    exportOut,      \* the file content it returned, or Pending
    \* the local heuristic run on its own
    localIn,        \* the text handed to TextAnalysisService.analyzeSentiment
    localOut        \* the object it returned, or Pending

stateVars ==
    <<text, analysis, isLoading, selectedModel, availableModels, backendStatus,
      fileContent, modelComparison, isComparing, csvData, isProcessingCsv,
      csvResults, csvProgress, currentCsvIndex>>

handlerVars == <<connPc, analyzeCall, compareRun, batchRun>>

envVars == <<relayModels, lastAlert>>

historyVars == <<batchLog, compareLog, ops, calls>>

connVars == <<connResponse, mounted>>

uiVars ==
    <<stateVars, handlerVars, envVars, historyVars, earlyReturns, connVars,
      analyzeResponse>>

csvVars == <<csvIn, csvOut>>

exportVars == <<exportIn, exportOut>>

localVars == <<localIn, localOut>>

\* the variables of the functions that are run on their own
fnVars == <<csvVars, exportVars, localVars>>

vars == <<uiVars, fnVars>>

(***************************************************************************)
(* Bounds of the model.                                                    *)
(***************************************************************************)
MaxChunks == 5      \* file contents are built from at most this many chunks
MaxRows == 2        \* data rows under a header line in the table-shaped files
MaxOps == 3         \* user operations (clicks, uploads, edits) in one behaviour
MaxCalls == 2       \* /analyze calls in one behaviour
MaxWords == 7       \* words of a text handed to the local heuristic

(***************************************************************************)
(* JavaScript string primitives.                                           *)
(***************************************************************************)
\* String.prototype.trim strips these (the ones the model's inputs can hold)
WhiteSpace == {" ", "\t", "\r", "\n"}

RECURSIVE TrimStart(_)
TrimStart(s) ==
    IF s # <<>> /\ Head(s) \in WhiteSpace THEN TrimStart(Tail(s)) ELSE s

RECURSIVE TrimEnd(_)
TrimEnd(s) ==
    IF s # <<>> /\ s[Len(s)] \in WhiteSpace
    THEN TrimEnd(SubSeq(s, 1, Len(s) - 1))
    ELSE s

Trim(s) == TrimEnd(TrimStart(s))

\* String.prototype.split(sep) for a one-character separator
RECURSIVE Split(_, _)
Split(s, sep) ==
    IF \A i \in 1..Len(s) : s[i] # sep
    THEN <<s>>
    ELSE LET k == CHOOSE i \in 1..Len(s) :
                      s[i] = sep /\ \A j \in 1..(i - 1) : s[j] # sep
         IN  <<SubSeq(s, 1, k - 1)>> \o Split(SubSeq(s, k + 1, Len(s)), sep)

\* the letters, upper case and lower case
UpperCase ==
    <<"A","B","C","D","E","F","G","H","I","J","K","L","M",
      "N","O","P","Q","R","S","T","U","V","W","X","Y","Z">>

LowerCase ==
    <<"a","b","c","d","e","f","g","h","i","j","k","l","m",
      "n","o","p","q","r","s","t","u","v","w","x","y","z">>

LowerChar(c) ==
    IF \E k \in 1..Len(UpperCase) : UpperCase[k] = c
    THEN LowerCase[CHOOSE k \in 1..Len(UpperCase) : UpperCase[k] = c]
    ELSE c

ToLowerCase(s) == [i \in 1..Len(s) |-> LowerChar(s[i])]

\* String.prototype.includes
Includes(s, sub) ==
    \E i \in 0..(Len(s) - Len(sub)) : SubSeq(s, i + 1, i + Len(sub)) = sub

\* s.replace(/"/g, '')
StripQuotes(s) == SelectSeq(s, LAMBDA c : c # "\"")

(***************************************************************************)
(* parseCSV (App.jsx).                                                     *)
(***************************************************************************)
\* headerIndicators, and the same eight words of the findIndex predicate
headerIndicators ==
    << <<"t","e","x","t">>,
       <<"c","o","n","t","e","n","t">>,
       <<"m","e","s","s","a","g","e">>,
       <<"s","e","n","t","e","n","c","e">>,
       <<"c","o","m","m","e","n","t">>,
       <<"r","e","v","i","e","w">>,
       <<"f","e","e","d","b","a","c","k">>,
       <<"d","a","t","a">> >>

IsTextHeader(h) ==
    \E k \in 1..Len(headerIndicators) : ToLowerCase(h) = headerIndicators[k]

\* the value of a field the returned object does not have
undefined == "undefined"

EmptyFileMessage == "CSV file is empty"
NoTextColumnWarning == "No text column found, using first column as text"

\* throw new Error(message)
Thrown(message) == [threw |-> TRUE, message |-> message]

\* a slip of this code: the filter keeps every line that is not the empty string
NonBlankLines_NoTrim(csvContent) ==
    SelectSeq(Split(csvContent, "\n"), LAMBDA line : line # <<>>)

\* lines = csvContent.split('\n').filter(line => line.trim())
NonBlankLines(csvContent) ==
    SelectSeq(Split(csvContent, "\n"), LAMBDA line : Trim(line) # <<>>)

\* line.split(',').map(v => v.trim().replace(/"/g, ''))
CellsOf(line) ==
    LET values == Split(line, ",")
    IN  [k \in 1..Len(values) |-> StripQuotes(Trim(values[k]))]

\* a slip of this code: the search runs over the keywords first and the headers second
FindTextColumn_KeywordOrder(headers) ==
    IF \E i \in 1..Len(headers) : IsTextHeader(headers[i])
    THEN LET Has(k) == \E i \in 1..Len(headers) :
                           ToLowerCase(headers[i]) = headerIndicators[k]
             kw == CHOOSE k \in 1..Len(headerIndicators) :
                       Has(k) /\ \A j \in 1..(k - 1) : ~Has(j)
         IN  (CHOOSE i \in 1..Len(headers) :
                  ToLowerCase(headers[i]) = headerIndicators[kw]
                  /\ \A j \in 1..(i - 1) :
                         ToLowerCase(headers[j]) # headerIndicators[kw]) - 1
    ELSE -1

\* headers.findIndex(...), 0-based, -1 when no header matches
FindTextColumn(headers) ==
    IF \E i \in 1..Len(headers) : IsTextHeader(headers[i])
    THEN (CHOOSE i \in 1..Len(headers) :
              IsTextHeader(headers[i])
              /\ \A j \in 1..(i - 1) : ~IsTextHeader(headers[j])) - 1
    ELSE -1

\* a slip of this code: the loops push the cell without testing its length
RECURSIVE ExtractTexts_KeepEmpty(_, _, _)
ExtractTexts_KeepEmpty(lines, startIndex, column) ==
    IF startIndex >= Len(lines)
    THEN <<>>
    ELSE LET values == CellsOf(lines[startIndex + 1])
             here   == IF column + 1 <= Len(values)
                       THEN <<values[column + 1]>>
                       ELSE <<>>
         IN  here \o ExtractTexts_KeepEmpty(lines, startIndex + 1, column)

\* the two extraction loops: the cell at `column` (0-based) of the lines from
\* startIndex (0-based) on, a line contributing when the cell exists and is
\* not empty
RECURSIVE ExtractTexts(_, _, _)
ExtractTexts(lines, startIndex, column) ==
    IF startIndex >= Len(lines)
    THEN <<>>
    ELSE LET line   == lines[startIndex + 1]
             values == CellsOf(line)
             here   == IF Trim(line) # <<>>
                          /\ column + 1 <= Len(values)
                          /\ Len(values[column + 1]) > 0
                       THEN <<values[column + 1]>>
                       ELSE <<>>
         IN  here \o ExtractTexts(lines, startIndex + 1, column)

\* hasHeaderIndicators: the lowercased first line contains a header word
HasHeaderIndicators(firstLine) ==
    \E k \in 1..Len(headerIndicators) :
        Includes(ToLowerCase(firstLine), headerIndicators[k])

\* a slip of this code: without header words the header list is left empty
HeadersOf_NoDefault(firstLine) ==
    IF HasHeaderIndicators(firstLine) THEN CellsOf(firstLine) ELSE <<>>

\* headers, as the if/else on hasHeaderIndicators sets it
HeadersOf(firstLine) ==
    IF HasHeaderIndicators(firstLine)
    THEN CellsOf(firstLine)
    ELSE << <<"t","e","x","t">> >>

\* a slip of this code: the first line is skipped whether or not it is a header
StartIndexOf_AlwaysOne(firstLine) == 1

\* startIndex, as the same if/else sets it
StartIndexOf(firstLine) == IF HasHeaderIndicators(firstLine) THEN 1 ELSE 0

\* a slip of this code: the single line is split into cells like a data row
SingleLineBatch_FirstCell(line) ==
    [threw |-> FALSE,
     headers |-> << <<"t","e","x","t">> >>,
     texts |-> <<CellsOf(line)[1]>>,
     totalRows |-> 1,
     hasHeaders |-> FALSE,
     warning |-> undefined]

\* the object returned when exactly one line remains
SingleLineBatch(line) ==
    [threw |-> FALSE,
     headers |-> << <<"t","e","x","t">> >>,
     texts |-> <<Trim(line)>>,
     totalRows |-> 1,
     hasHeaders |-> FALSE,
     warning |-> undefined]

\* a slip of this code: the fallback returns its object without the warning
FallbackBatch_NoWarning(lines) ==
    LET texts == ExtractTexts(lines, StartIndexOf(lines[1]), 0) IN
    [threw |-> FALSE,
     headers |-> HeadersOf(lines[1]),
     texts |-> texts,
     totalRows |-> Len(texts),
     hasHeaders |-> HasHeaderIndicators(lines[1]),
     warning |-> undefined]

\* the object returned when no header is a text header
FallbackBatch(lines) ==
    LET texts == ExtractTexts(lines, StartIndexOf(lines[1]), 0) IN
    [threw |-> FALSE,
     headers |-> HeadersOf(lines[1]),
     texts |-> texts,
     totalRows |-> Len(texts),
     hasHeaders |-> HasHeaderIndicators(lines[1]),
     warning |-> NoTextColumnWarning]

\* a slip of this code: totalRows counts the data lines, not the texts kept
TextColumnBatch_CountsLines(lines, textColumnIndex) ==
    LET texts == ExtractTexts(lines, StartIndexOf(lines[1]), textColumnIndex) IN
    [threw |-> FALSE,
     headers |-> HeadersOf(lines[1]),
     texts |-> texts,
     totalRows |-> Len(lines) - StartIndexOf(lines[1]),
     hasHeaders |-> HasHeaderIndicators(lines[1]),
     warning |-> undefined]

\* the object returned when header textColumnIndex is a text header
TextColumnBatch(lines, textColumnIndex) ==
    LET texts == ExtractTexts(lines, StartIndexOf(lines[1]), textColumnIndex) IN
    [threw |-> FALSE,
     headers |-> HeadersOf(lines[1]),
     texts |-> texts,
     totalRows |-> Len(texts),
     hasHeaders |-> HasHeaderIndicators(lines[1]),
     warning |-> undefined]

parseCSV(csvContent) ==
    LET lines == NonBlankLines(csvContent) IN
    IF Len(lines) = 0 THEN Thrown(EmptyFileMessage)
    ELSE IF Len(lines) = 1 THEN SingleLineBatch(lines[1])
    ELSE LET textColumnIndex == FindTextColumn(HeadersOf(lines[1])) IN
         IF textColumnIndex = -1
         THEN FallbackBatch(lines)
         ELSE TextColumnBatch(lines, textColumnIndex)

(***************************************************************************)
(* The file contents the sniffer is run on.                                *)
(***************************************************************************)
RECURSIVE Concat(_)
Concat(ss) == IF ss = <<>> THEN <<>> ELSE Head(ss) \o Concat(Tail(ss))

RECURSIVE Join(_, _)
Join(ss, sep) ==
    IF Len(ss) = 0 THEN <<>>
    ELSE IF Len(ss) = 1 THEN ss[1]
    ELSE ss[1] \o <<sep>> \o Join(Tail(ss), sep)

SeqsUpTo(S, n) == UNION {[1..k -> S] : k \in 0..n}

\* free-form contents: any concatenation of at most MaxChunks chunks
Chunks ==
    { <<"t","e","x","t">>, <<"x">>, <<"y">>, <<",">>, <<"\n">>, <<" ">>, <<"\"">> }

ChunkInputs == {Concat(cs) : cs \in SeqsUpTo(Chunks, MaxChunks)}

\* table-shaped contents: a first line and up to MaxRows further lines
FirstLines ==
    { <<"t","e","x","t",",","d","a","t","a">>,        \* text,data
      <<"d","a","t","a",",","t","e","x","t">>,        \* data,text
      <<"x",",","T","e","x","t">>,                    \* x,Text
      <<"x",","," ","\"","D","A","T","A","\""," ">>,  \* x, "DATA"
      <<"t","e","\"","x","t",",","x">>,               \* te"xt,x
      <<"t","e","x","t","x",",","y">>,                \* textx,y
      <<"y",",","d","a","t","a","x">>,                \* y,datax
      <<"x",",","y">> }                               \* x,y

DataLines ==
    { <<"x",",","y">>,                    \* x,y
      <<"y",",","x">>,                    \* y,x
      <<"x">>,                            \* x
      <<",","y">>,                        \* ,y
      <<"\"","x"," ","y","\"",","," ">>,  \* "x y",
      <<"\"","\"",",","\"">> }            \* "","

TableInputs ==
    {Join(<<h>> \o rows, "\n") : h \in FirstLines, rows \in SeqsUpTo(DataLines, MaxRows)}

Inputs == ChunkInputs \cup TableInputs

(***************************************************************************)
(* Values shared by the handlers.                                          *)
(***************************************************************************)
\* JavaScript null
Null == [null |-> TRUE]

\* the function has not been called yet
Pending == [pending |-> TRUE]

\* r.error is truthy: the object has an error field (every message is non-empty)
HasError(r) == "error" \in DOMAIN r

\* a non-null array held in a nullable state cell
Arr(items) == [items |-> items]

\* useState('distilbert-base-uncased-finetuned-sst-2-english')
DefaultModel == "distilbert-base-uncased-finetuned-sst-2-english"

(***************************************************************************)
(* The relay (backend/main.py, not among the sources): POST /analyze as    *)
(* sections 3, 4.2 and 7 of the specification describe it.                 *)
(***************************************************************************)
Sentiments == {"POSITIVE", "NEGATIVE", "NEUTRAL"}

\* the label and confidence pairs the hosted models answer with; a confidence
\* is counted in tenths, so 0, 5 and 10 stand for 0.0, 0.5 and 1.0
RelayAnswers ==
    { <<"POSITIVE", 10>>, <<"NEGATIVE", 5>>, <<"NEUTRAL", 0>> }

\* the lists GET /models may return: one holds the client's default model,
\* one does not
RelayModelLists ==
    { <<DefaultModel, "ProsusAI/finbert">>,
      <<"ProsusAI/finbert", "nlptown/bert-base-multilingual-uncased-sentiment">> }

AnalysisResult(txt, sentiment, confidence, modelName) ==
    [text |-> txt, sentiment |-> sentiment, confidence |-> confidence,
     model_name |-> modelName]

\* an HTTP response: fetch rejected, or a status (ok or not) and a body that
\* is JSON or not
HttpResponse(ok, json, body) ==
    [rejected |-> FALSE, ok |-> ok, json |-> json, body |-> body]

FetchRejected == [rejected |-> TRUE]

InvalidModelDetail == "Invalid model"
EmptyTextDetail == "Text cannot be empty"
ProviderFailureDetail == "Inference provider failed"

\* what the relay itself answers to POST /analyze {text, model_name}
RelayAnalyze(txt, modelName, supported) ==
    IF Trim(txt) = <<>>
    THEN {HttpResponse(FALSE, TRUE, [detail |-> EmptyTextDetail])}
    ELSE IF \A k \in 1..Len(supported) : supported[k] # modelName
    THEN {HttpResponse(FALSE, TRUE, [detail |-> InvalidModelDetail])}
    ELSE {HttpResponse(TRUE, TRUE, AnalysisResult(txt, a[1], a[2], modelName)) :
              a \in RelayAnswers}
         \cup {HttpResponse(FALSE, TRUE, [detail |-> ProviderFailureDetail])}

\* what the network between client and relay can add: no connection, an
\* error status whose JSON body has no detail, a body that is not JSON
TransportFailures ==
    { FetchRejected,
      HttpResponse(FALSE, TRUE, [status |-> "error"]),
      HttpResponse(FALSE, FALSE, Null) }

AnalyzeResponses(txt, modelName, supported) ==
    RelayAnalyze(txt, modelName, supported) \cup TransportFailures

(***************************************************************************)
(* ApiService.analyzeSentiment (services/apiService.js): what the awaited  *)
(* call gives for a response, a returned body or a thrown Error.           *)
(***************************************************************************)
FetchFailedMessage == "Failed to fetch"
JsonSyntaxMessage == "Unexpected token < in JSON"
AnalysisFailedMessage == "Analysis failed"

Returned(value) == [threw |-> FALSE, value |-> value]

analyzeSentiment(response) ==
    IF response.rejected THEN Thrown(FetchFailedMessage)
    ELSE IF ~response.ok THEN
        IF ~response.json THEN Thrown(JsonSyntaxMessage)
        ELSE IF "detail" \in DOMAIN response.body
        THEN Thrown(response.body.detail)
        ELSE Thrown(AnalysisFailedMessage)
    ELSE IF ~response.json THEN Thrown(JsonSyntaxMessage)
    ELSE Returned(response.body)

\* the outcomes one awaited apiService.analyzeSentiment(text, model) can have
CallOutcomes(txt, modelName, supported) ==
    {analyzeSentiment(r) : r \in AnalyzeResponses(txt, modelName, supported)}

\* the responses GET /health can get
HealthResponses ==
    { FetchRejected,
      HttpResponse(TRUE, TRUE, [status |-> "healthy"]),
      HttpResponse(FALSE, TRUE, [status |-> "error"]),
      HttpResponse(FALSE, FALSE, Null) }

\* the responses GET /models can get
ModelsResponses(supported) ==
    { FetchRejected,
      HttpResponse(TRUE, TRUE, [available_models |-> supported]),
      HttpResponse(FALSE, TRUE, [status |-> "error"]),
      HttpResponse(FALSE, FALSE, Null) }

\* a slip of this code: the catch block swallows the error
healthCheck_NeverThrows(response) ==
    IF response.rejected \/ ~response.json THEN Returned(Null)
    ELSE Returned(response.body)

\* ApiService.healthCheck: response.ok is not looked at
healthCheck(response) ==
    IF response.rejected THEN Thrown(FetchFailedMessage)
    ELSE IF ~response.json THEN Thrown(JsonSyntaxMessage)
    ELSE Returned(response.body)

\* ApiService.getAvailableModels: response.ok is not looked at
getAvailableModels(response) ==
    IF response.rejected THEN Thrown(FetchFailedMessage)
    ELSE IF ~response.json THEN Thrown(JsonSyntaxMessage)
    ELSE Returned(response.body)

(***************************************************************************)
(* TextAnalyzer (App.jsx): the state after the first render, with the      *)
(* mount effect's health check in flight.                                  *)
(***************************************************************************)
InitUI ==
    /\ text = <<>>
    /\ analysis = Null
    /\ isLoading = FALSE
    /\ selectedModel = DefaultModel
    /\ availableModels = <<>>
    /\ backendStatus = "checking"
    /\ fileContent = <<>>
    /\ modelComparison = Null
    /\ isComparing = FALSE
    /\ csvData = Null
    /\ isProcessingCsv = FALSE
    /\ csvResults = Null
    /\ csvProgress = [current |-> 0, total |-> 0]
    /\ currentCsvIndex = 0
    /\ connPc = "health"
    /\ analyzeCall = Null
    /\ compareRun = Null
    /\ batchRun = Null
    /\ lastAlert = "none"
    /\ batchLog = <<>>
    /\ compareLog = <<>>
    /\ ops = 0
    /\ calls = 0
    /\ earlyReturns = 0
    /\ connResponse = Null
    /\ analyzeResponse = Null
    /\ mounted = TRUE

Init ==
    /\ InitUI
    /\ relayModels \in RelayModelLists
    /\ csvIn = <<>>
    /\ csvOut = Pending
    /\ exportIn = <<>>
    /\ exportOut = Pending
    /\ localIn = <<>>
    /\ localOut = Pending

(***************************************************************************)
(* checkBackendConnection: two awaited calls, each resolving or rejecting. *)
(***************************************************************************)
HealthCheckResolves ==
    /\ connPc = "health"
    /\ \E response \in HealthResponses :
        /\ ~healthCheck(response).threw
        /\ connResponse' = response
    /\ connPc' = "models"
    /\ UNCHANGED <<stateVars, analyzeCall, compareRun, batchRun, envVars,
                   historyVars, earlyReturns, mounted, analyzeResponse, fnVars>>

\* the awaited call threw: the catch block
ConnectionFails ==
    /\ connPc \in {"health", "models"}
    /\ \E response \in (IF connPc = "health" THEN HealthResponses
                        ELSE ModelsResponses(relayModels)) :
        /\ (IF connPc = "health" THEN healthCheck(response)
            ELSE getAvailableModels(response)).threw
        /\ connResponse' = response
    /\ backendStatus' = "disconnected"
    /\ connPc' = "done"
    /\ UNCHANGED <<text, analysis, isLoading, selectedModel, availableModels,
                   fileContent, modelComparison, isComparing, csvData,
                   isProcessingCsv, csvResults, csvProgress, currentCsvIndex,
                   analyzeCall, compareRun, batchRun, envVars, historyVars,
                   earlyReturns, mounted, analyzeResponse, fnVars>>

\* models.available_models, undefined when the body has no such field
AvailableModelsOf(models) ==
    IF "available_models" \in DOMAIN models THEN models.available_models
    ELSE undefined

\* availableModels.map(...) of the model select throws on undefined
RenderThrows(models) == models = undefined

\* the second call resolved: both setters, then the render with the new list
ModelsResolve ==
    /\ connPc = "models"
    /\ \E response \in ModelsResponses(relayModels) :
        LET models == getAvailableModels(response) IN
        /\ ~models.threw
        /\ availableModels' = AvailableModelsOf(models.value)
        /\ mounted' = ~RenderThrows(AvailableModelsOf(models.value))
        /\ connResponse' = response
    /\ backendStatus' = "connected"
    /\ connPc' = "done"
    /\ UNCHANGED <<text, analysis, isLoading, selectedModel, fileContent,
                   modelComparison, isComparing, csvData, isProcessingCsv,
                   csvResults, csvProgress, currentCsvIndex, analyzeCall,
                   compareRun, batchRun, envVars, historyVars, earlyReturns,
                   analyzeResponse, fnVars>>

(***************************************************************************)
(* The inputs of the user.                                                 *)
(***************************************************************************)
TypedTexts == { <<>>, <<" ">>, <<"h","i">> }

\* an uploaded file: whether its name ends in .csv, and its content
File(isCsv, content) == [csv |-> isCsv, content |-> content]

Files ==
    { File(TRUE, <<"t","e","x","t","\n","x","\n","y">>),    \* text / x / y
      File(TRUE, <<"x",",","y">>),                        \* one line: x,y
      File(TRUE, <<"t","e","x","t","x","\n","y">>),        \* textx / y
      File(TRUE, <<"t","e","x","t","\n","\"","\"">>),      \* text / ""
      File(TRUE, <<" ","\n">>),                           \* blank
      File(FALSE, <<"o","k">>) }                          \* notes.txt

\* a slip of this code: the controls are disabled only once the check failed
Connected_NotDisconnected == backendStatus # "disconnected"

\* backendStatus !== 'connected' disables the controls
Connected == backendStatus = "connected"

\* a slip of this code: the text is tested without being trimmed
HasText_NoTrim(t) == t # <<>>

\* !text.trim() disables the buttons and makes the handlers return
HasText(t) == Trim(t) # <<>>

\* the textarea's onChange
TypeText ==
    /\ mounted
    /\ ops < MaxOps
    /\ Connected
    /\ \E t \in TypedTexts : t # text /\ text' = t
    /\ ops' = ops + 1
    /\ UNCHANGED <<analysis, isLoading, selectedModel, availableModels,
                   backendStatus, fileContent, modelComparison, isComparing,
                   csvData, isProcessingCsv, csvResults, csvProgress,
                   currentCsvIndex, handlerVars, envVars, batchLog, compareLog, calls,
                   earlyReturns, connVars, analyzeResponse, fnVars>>

\* the model select's onChange: one of the options rendered from availableModels
SelectModel ==
    /\ mounted
    /\ ops < MaxOps
    /\ Connected
    /\ \E k \in 1..Len(availableModels) :
           availableModels[k] # selectedModel /\ selectedModel' = availableModels[k]
    /\ ops' = ops + 1
    /\ UNCHANGED <<text, analysis, isLoading, availableModels, backendStatus,
                   fileContent, modelComparison, isComparing, csvData,
                   isProcessingCsv, csvResults, csvProgress, currentCsvIndex,
                   handlerVars, envVars, batchLog, compareLog, calls,
                   earlyReturns, connVars, analyzeResponse, fnVars>>

\* the alert handleFileUpload shows for an error thrown by parseCSV
ParseErrorAlert(message) ==
    IF message = EmptyFileMessage
    THEN "Error parsing CSV file. The file appears to be empty."
    ELSE "Error parsing CSV file. " \o message

\* a slip of this code: the catch block also clears the text input
UploadFailed_ClearsText(message) ==
    /\ lastAlert' = ParseErrorAlert(message)
    /\ text' = <<>>
    /\ UNCHANGED <<csvData, fileContent>>

\* the catch block of the upload: the alert, and no setter
UploadFailed(message) ==
    /\ lastAlert' = ParseErrorAlert(message)
    /\ UNCHANGED <<text, csvData, fileContent>>

\* handleFileUpload, the reader's onload
handleFileUpload ==
    /\ mounted
    /\ ops < MaxOps
    /\ ops' = ops + 1
    /\ \E file \in Files :
        IF file.csv
        THEN LET csvContent == parseCSV(file.content) IN
             IF csvContent.threw
             THEN UploadFailed(csvContent.message)
             ELSE /\ csvData' = csvContent
                  /\ text' = <<>>
                  /\ lastAlert' = IF csvContent.warning # undefined
                                  THEN "CSV loaded with warning: " \o csvContent.warning
                                  ELSE lastAlert
                  /\ UNCHANGED fileContent
        ELSE /\ fileContent' = file.content
             /\ text' = file.content
             /\ UNCHANGED <<csvData, lastAlert>>
    /\ UNCHANGED <<analysis, isLoading, selectedModel, availableModels,
                   backendStatus, modelComparison, isComparing, isProcessingCsv,
                   csvResults, csvProgress, currentCsvIndex, handlerVars,
                   relayModels, batchLog, compareLog, calls, earlyReturns, connVars, analyzeResponse, fnVars>>

(***************************************************************************)
(* handleAnalyze.                                                          *)
(***************************************************************************)
\* the click: the button is enabled, the handler's own guard, the call issued
handleAnalyze ==
    /\ mounted
    /\ ops < MaxOps
    /\ ~isLoading /\ HasText(text) /\ Connected
    /\ calls + 1 <= MaxCalls
    /\ ops' = ops + 1
    /\ calls' = calls + 1
    /\ isLoading' = TRUE
    /\ analyzeCall' = [text |-> text, selectedModel |-> selectedModel]
    /\ UNCHANGED <<text, analysis, selectedModel, availableModels, backendStatus,
                   fileContent, modelComparison, isComparing, csvData,
                   isProcessingCsv, csvResults, csvProgress, currentCsvIndex,
                   connPc, compareRun, batchRun, envVars, batchLog, compareLog,
                   earlyReturns, connVars, analyzeResponse, fnVars>>

\* a slip of this code: the catch block stores the bare message
AnalysisFor_BareMessage(outcome) ==
    IF outcome.threw THEN [message |-> outcome.message] ELSE outcome.value

\* what try/catch stores for the outcome of the call
AnalysisFor(outcome) ==
    IF outcome.threw THEN [error |-> outcome.message] ELSE outcome.value

\* the awaited call returns or throws; try, catch and finally run
AnalyzeCallCompletes ==
    /\ analyzeCall # Null
    /\ \E response \in AnalyzeResponses(analyzeCall.text,
                                        analyzeCall.selectedModel, relayModels) :
           /\ analysis' = AnalysisFor(analyzeSentiment(response))
           /\ analyzeResponse' = response
    /\ isLoading' = FALSE
    /\ analyzeCall' = Null
    /\ UNCHANGED <<text, selectedModel, availableModels, backendStatus,
                   fileContent, modelComparison, isComparing, csvData,
                   isProcessingCsv, csvResults, csvProgress, currentCsvIndex,
                   connPc, compareRun, batchRun, envVars, historyVars,
                   earlyReturns, connVars, fnVars>>

(***************************************************************************)
(* handleCompareModels.                                                    *)
(***************************************************************************)
\* the entries of a JavaScript object, in insertion order
Obj(entries) == [entries |-> entries]

\* results[key] = value
Put(entries, key, value) ==
    IF \E k \in 1..Len(entries) : entries[k].key = key
    THEN [k \in 1..Len(entries) |->
             IF entries[k].key = key THEN [key |-> key, value |-> value]
             ELSE entries[k]]
    ELSE Append(entries, [key |-> key, value |-> value])

RequestEvent(row, txt, modelName) ==
    [ev |-> "request", row |-> row, text |-> txt, model_name |-> modelName]

\* the first entry of a run's log: what the handler's closure captured
StartEvent(texts, models) == [ev |-> "start", texts |-> texts, models |-> models]

CompletedEvent(row, outcome) ==
    [ev |-> "completed", row |-> row, outcome |-> outcome]

\* what the inner try/catch stores under the model's key
ComparisonEntryFor(outcome) ==
    IF outcome.threw THEN [error |-> outcome.message] ELSE outcome.value

\* a slip of this code: a failed call makes the loop pass over the next model
CompareNextIndex_SkipAfterFailure(k, outcome) ==
    IF outcome.threw THEN k + 2 ELSE k + 1

\* the index of the model the loop asks after the one at index k
CompareNextIndex(k, outcome) == k + 1

\* the click; with no model to ask, the loop body never runs and the handler
\* ends in the same step
handleCompareModels ==
    /\ mounted
    /\ ops < MaxOps
    /\ ~isComparing /\ HasText(text) /\ Connected
    /\ calls + Len(availableModels) <= MaxCalls
    /\ ops' = ops + 1
    /\ calls' = calls + Len(availableModels)
    /\ IF Len(availableModels) = 0
       THEN /\ modelComparison' = Obj(<<>>)
            /\ compareLog' = <<StartEvent(<<text>>, availableModels)>>
            /\ UNCHANGED <<isComparing, compareRun>>
       ELSE /\ isComparing' = TRUE
            /\ compareRun' = [text |-> text, availableModels |-> availableModels,
                              k |-> 1, results |-> <<>>]
            /\ compareLog' = <<StartEvent(<<text>>, availableModels),
                              RequestEvent(1, text, availableModels[1])>>
            /\ UNCHANGED modelComparison
    /\ UNCHANGED <<text, analysis, isLoading, selectedModel, availableModels,
                   backendStatus, fileContent, csvData, isProcessingCsv,
                   csvResults, csvProgress, currentCsvIndex, connPc,
                   analyzeCall, batchRun, envVars, batchLog, earlyReturns, connVars, analyzeResponse, fnVars>>

\* one awaited call of the loop returns or throws; the loop goes on to the
\* next model, or the handler finishes
CompareCallCompletes ==
    /\ compareRun # Null
    /\ LET models == compareRun.availableModels
           k      == compareRun.k
       IN  \E outcome \in CallOutcomes(compareRun.text, models[k], relayModels) :
             LET results == Put(compareRun.results, models[k],
                                ComparisonEntryFor(outcome))
                 next    == CompareNextIndex(k, outcome)
             IN  IF next <= Len(models)
                 THEN /\ compareRun' = [compareRun EXCEPT !.k = next,
                                                          !.results = results]
                      /\ compareLog' = compareLog \o
                             <<CompletedEvent(k, outcome),
                               RequestEvent(next, compareRun.text, models[next])>>
                      /\ UNCHANGED <<modelComparison, isComparing>>
                 ELSE /\ modelComparison' = Obj(results)
                      /\ isComparing' = FALSE
                      /\ compareRun' = Null
                      /\ compareLog' = Append(compareLog, CompletedEvent(k, outcome))
    /\ UNCHANGED <<text, analysis, isLoading, selectedModel, availableModels,
                   backendStatus, fileContent, csvData, isProcessingCsv,
                   csvResults, csvProgress, currentCsvIndex, connPc,
                   analyzeCall, batchRun, envVars, batchLog, ops, calls,
                   earlyReturns, connVars, analyzeResponse, fnVars>>

(***************************************************************************)
(* handleAnalyzeCSV.                                                       *)
(***************************************************************************)
\* a slip of this code: the placeholder is pushed without its error field
ErrorPlaceholder_NoErrorField(txt, message, modelName) ==
    [text |-> txt, sentiment |-> "ERROR", confidence |-> 0,
     model_name |-> modelName]

\* the object the inner catch pushes
ErrorPlaceholder(txt, message, modelName) ==
    [text |-> txt, error |-> message, sentiment |-> "ERROR", confidence |-> 0,
     model_name |-> modelName]

\* a slip of this code: the inner catch stores what handleAnalyze's catch stores
BatchResultFor_BareError(txt, modelName, outcome) ==
    IF outcome.threw THEN [error |-> outcome.message] ELSE outcome.value

\* what the inner try/catch pushes for the outcome of the call
BatchResultFor(txt, modelName, outcome) ==
    IF outcome.threw
    THEN ErrorPlaceholder(txt, outcome.message, modelName)
    ELSE outcome.value

\* a slip of this code: the progress update counts the rows before this one
ProgressAfter_OffByOne(i, total) == [current |-> i, total |-> total]

\* setCsvProgress({ current: i + 1, total: csvData.texts.length })
ProgressAfter(i, total) == [current |-> i + 1, total |-> total]

\* a slip of this code: a failed row is asked again
BatchNextRow_Retry(i, outcome) == IF outcome.threw THEN i ELSE i + 1

\* the row (0-based) the loop asks after row i
BatchNextRow(i, outcome) == i + 1

\* a slip of this code: the finally block leaves the progress of the last row in place
FinishedProgress_NotReset ==
    [current |-> Len(batchRun.csvData.texts),
     total |-> Len(batchRun.csvData.texts)]

\* the finally block's setCsvProgress({ current: 0, total: 0 })
FinishedProgress == [current |-> 0, total |-> 0]

\* csvData.texts as the running handler sees it: the value its closure took
BatchTexts == batchRun.csvData.texts

\* a slip of this code: the loop reads the model selected now
BatchModel_Live == selectedModel

\* selectedModel as the running handler sees it: the value its closure took
BatchModel == batchRun.selectedModel

\* the click: the button is rendered only with a CsvBatch loaded
handleAnalyzeCSV ==
    /\ mounted
    /\ ops < MaxOps
    /\ csvData # Null
    /\ ~isProcessingCsv /\ Connected
    /\ calls + Len(csvData.texts) <= MaxCalls
    /\ ops' = ops + 1
    /\ calls' = calls + Len(csvData.texts)
    /\ IF Len(csvData.texts) = 0
       THEN /\ earlyReturns' = earlyReturns + 1
            /\ UNCHANGED <<isProcessingCsv, csvProgress, batchRun, batchLog>>
       ELSE /\ UNCHANGED earlyReturns
            /\ isProcessingCsv' = TRUE
            /\ csvProgress' = [current |-> 0, total |-> Len(csvData.texts)]
            /\ batchRun' = [csvData |-> csvData, selectedModel |-> selectedModel,
                            i |-> 0, results |-> <<>>]
            /\ batchLog' = <<StartEvent(csvData.texts, <<selectedModel>>),
                            RequestEvent(0, csvData.texts[1], selectedModel)>>
    /\ UNCHANGED <<text, analysis, isLoading, selectedModel, availableModels,
                   backendStatus, fileContent, modelComparison, isComparing,
                   csvData, csvResults, currentCsvIndex, connPc, analyzeCall,
                   compareRun, envVars, compareLog, connVars, analyzeResponse, fnVars>>

\* one awaited call of the loop returns or throws.  The code up to the next
\* await runs in one piece: the push and the progress update, then either the
\* next call, or the stores after the loop and the finally block
BatchCallCompletes ==
    /\ batchRun # Null
    /\ LET texts     == BatchTexts
           i         == batchRun.i
           modelName == BatchModel
       IN  \E outcome \in CallOutcomes(texts[i + 1], modelName, relayModels) :
             LET results == Append(batchRun.results,
                                   BatchResultFor(texts[i + 1], modelName, outcome))
                 next    == BatchNextRow(i, outcome)
             IN  IF next < Len(texts)
                 THEN /\ csvProgress' = ProgressAfter(i, Len(texts))
                      /\ batchRun' = [batchRun EXCEPT !.i = next,
                                                      !.results = results]
                      /\ batchLog' = batchLog \o
                             <<CompletedEvent(i, outcome),
                               RequestEvent(next, texts[next + 1], modelName)>>
                      /\ UNCHANGED <<analysis, csvResults, currentCsvIndex,
                                     isProcessingCsv>>
                 ELSE /\ csvResults' = Arr(results)
                      /\ currentCsvIndex' = 0
                      /\ analysis' = IF Len(results) > 0 THEN results[1]
                                     ELSE analysis
                      /\ isProcessingCsv' = FALSE
                      /\ csvProgress' = FinishedProgress
                      /\ batchRun' = Null
                      /\ batchLog' = Append(batchLog, CompletedEvent(i, outcome))
    /\ UNCHANGED <<text, isLoading, selectedModel, availableModels,
                   backendStatus, fileContent, modelComparison, isComparing,
                   csvData, connPc, analyzeCall, compareRun, envVars,
                   compareLog, ops, calls, earlyReturns, connVars, analyzeResponse, fnVars>>

(***************************************************************************)
(* The Previous and Next buttons of the report pane.                       *)
(***************************************************************************)
\* the pane shows a result, not the disconnected, empty or failed notice;
\* the navigation is rendered inside it when there are batch results
NavigationShown ==
    /\ mounted
    /\ backendStatus = "connected"
    /\ analysis # Null
    /\ ~HasError(analysis)
    /\ csvResults # Null
    /\ Len(csvResults.items) > 0

Min(a, b) == IF a < b THEN a ELSE b
Max(a, b) == IF a > b THEN a ELSE b

\* a move between the stored results is not counted in ops: the index stays
\* within the list
PreviousResult ==
    /\ NavigationShown
    /\ currentCsvIndex # 0
    /\ LET newIndex == Max(0, currentCsvIndex - 1)
       IN  /\ currentCsvIndex' = newIndex
           /\ analysis' = csvResults.items[newIndex + 1]
    /\ UNCHANGED <<text, isLoading, selectedModel, availableModels,
                   backendStatus, fileContent, modelComparison, isComparing,
                   csvData, isProcessingCsv, csvResults, csvProgress,
                   handlerVars, envVars, historyVars,
                   earlyReturns, connVars, analyzeResponse, fnVars>>

NextResult ==
    /\ NavigationShown
    /\ currentCsvIndex # Len(csvResults.items) - 1
    /\ LET newIndex == Min(Len(csvResults.items) - 1, currentCsvIndex + 1)
       IN  /\ currentCsvIndex' = newIndex
           /\ analysis' = csvResults.items[newIndex + 1]
    /\ UNCHANGED <<text, isLoading, selectedModel, availableModels,
                   backendStatus, fileContent, modelComparison, isComparing,
                   csvData, isProcessingCsv, csvResults, csvProgress,
                   handlerVars, envVars, historyVars,
                   earlyReturns, connVars, analyzeResponse, fnVars>>

(***************************************************************************)
(* The component: every interleaving of user operations and completing     *)
(* calls.                                                                  *)
(***************************************************************************)
Next ==
    \/ HealthCheckResolves
    \/ ConnectionFails
    \/ ModelsResolve
    \/ TypeText
    \/ SelectModel
    \/ handleFileUpload
    \/ handleAnalyze
    \/ AnalyzeCallCompletes
    \/ handleCompareModels
    \/ CompareCallCompletes
    \/ handleAnalyzeCSV
    \/ BatchCallCompletes
    \/ PreviousResult
    \/ NextResult

Spec == Init /\ [][Next]_vars

\* every awaited /analyze call of a batch run eventually returns or throws
FairSpec == Spec /\ WF_vars(BatchCallCompletes)

(***************************************************************************)
(* The sniffer alone: one call on one file content.                        *)
(***************************************************************************)
InitCSV ==
    /\ InitUI
    /\ relayModels = <<>>
    /\ csvIn \in Inputs
    /\ csvOut = Pending
    /\ exportIn = <<>>
    /\ exportOut = Pending
    /\ localIn = <<>>
    /\ localOut = Pending

ParseStep ==
    /\ csvOut = Pending
    /\ csvOut' = parseCSV(csvIn)
    /\ UNCHANGED <<csvIn, uiVars, exportVars, localVars>>

NextCSV == ParseStep

SpecCSV == InitCSV /\ [][NextCSV]_vars

(***************************************************************************)
(* generateResultsCSV (App.jsx): the file the Download button exports.     *)
(***************************************************************************)
\* String(cell) for the labels and model names a result can hold
StringOf(value) ==
    CASE value = "POSITIVE" -> <<"P","O","S","I","T","I","V","E">>
      [] value = "NEGATIVE" -> <<"N","E","G","A","T","I","V","E">>
      [] value = "NEUTRAL" -> <<"N","E","U","T","R","A","L">>
      [] value = "ERROR" -> <<"E","R","R","O","R">>
      [] value = "unknown" -> <<"u","n","k","n","o","w","n">>
      [] value = "distilbert-base-uncased-finetuned-sst-2-english" ->
           <<"d", "i", "s", "t", "i", "l", "b", "e", "r", "t", "-", "b",
             "a", "s", "e", "-", "u", "n", "c", "a", "s", "e", "d", "-",
             "f", "i", "n", "e", "t", "u", "n", "e", "d", "-", "s", "s",
             "t", "-", "2", "-", "e", "n", "g", "l", "i", "s", "h">>
      [] value = "ProsusAI/finbert" ->
           <<"P", "r", "o", "s", "u", "s", "A", "I", "/", "f", "i", "n",
             "b", "e", "r", "t">>
      [] value = "nlptown/bert-base-multilingual-uncased-sentiment" ->
           <<"n", "l", "p", "t", "o", "w", "n", "/", "b", "e", "r", "t",
             "-", "b", "a", "s", "e", "-", "m", "u", "l", "t", "i", "l",
             "i", "n", "g", "u", "a", "l", "-", "u", "n", "c", "a", "s",
             "e", "d", "-", "s", "e", "n", "t", "i", "m", "e", "n", "t">>

\* String(cell) for a confidence, counted in tenths: 0, 0.1 .. 0.9, 1
StringOfNumber(tenths) ==
    LET Digit(d) == SubSeq(<<"0","1","2","3","4","5","6","7","8","9">>, d + 1, d + 1)
    IN  IF tenths % 10 = 0 THEN Digit(tenths \div 10)
        ELSE Digit(tenths \div 10) \o <<".">> \o Digit(tenths % 10)

\* the header row of the export
ExportHeaders ==
    << <<"T","e","x","t">>,
       <<"S","e","n","t","i","m","e","n","t">>,
       <<"C","o","n","f","i","d","e","n","c","e">>,
       <<"M","o","d","e","l">>,
       <<"J","o","y"," ","S","c","o","r","e">>,
       <<"S","a","d","n","e","s","s"," ","S","c","o","r","e">>,
       <<"A","n","g","e","r"," ","S","c","o","r","e">>,
       <<"F","e","a","r"," ","S","c","o","r","e">>,
       <<"F","o","r","m","a","l"," ","S","c","o","r","e">>,
       <<"C","a","s","u","a","l"," ","S","c","o","r","e">>,
       <<"E","m","o","t","i","o","n","a","l"," ","S","c","o","r","e">>,
       <<"O","b","j","e","c","t","i","v","e"," ","S","c","o","r","e">> >>

\* result.field || fallback, for a label or a model name
TextField(result, field, fallback) ==
    IF field \in DOMAIN result THEN StringOf(result[field]) ELSE StringOf(fallback)

\* result.field || 0, for a number
NumberField(result, field) ==
    IF field \in DOMAIN result THEN StringOfNumber(result[field]) ELSE <<"0">>

\* the twelve cells of the row of one result
ExportRow(result) ==
    << result.text,
       TextField(result, "sentiment", "ERROR"),
       NumberField(result, "confidence"),
       TextField(result, "model_name", "unknown"),
       NumberField(result, "joy_score"),
       NumberField(result, "sadness_score"),
       NumberField(result, "anger_score"),
       NumberField(result, "fear_score"),
       NumberField(result, "formal_score"),
       NumberField(result, "casual_score"),
       NumberField(result, "emotional_score"),
       NumberField(result, "objective_score") >>

\* cell.replace(/"/g, '""')
RECURSIVE DoubleQuotes(_)
DoubleQuotes(s) ==
    IF s = <<>> THEN <<>>
    ELSE (IF Head(s) = "\"" THEN <<"\"", "\"">> ELSE <<Head(s)>>)
         \o DoubleQuotes(Tail(s))

\* `"${String(cell).replace(/"/g, '""')}"`
QuoteCell(cell) == <<"\"">> \o DoubleQuotes(cell) \o <<"\"">>

generateResultsCSV(results) ==
    LET rows == <<ExportHeaders>> \o [i \in 1..Len(results) |-> ExportRow(results[i])]
    IN  Join([i \in 1..Len(rows) |->
                 Join([k \in 1..Len(rows[i]) |-> QuoteCell(rows[i][k])], ",")],
             "\n")

(***************************************************************************)
(* The export and the sniffer together: a result list of a batch run is    *)
(* exported and the exported file is parsed again.                         *)
(***************************************************************************)
\* the files whose batches are run: single lines, and tables of at most
\* MaxRows rows under a "text" header
ExportRows == { <<"x">>, <<"x"," ","y">> }

ExportFiles ==
    { <<"x">>, <<"x",",","y">>, <<"t","e","\"","x","t">>, <<"\"","x","\"">> }
    \cup { Join(<< <<"t","e","x","t">> >> \o rows, "\n") :
               rows \in SeqsUpTo(ExportRows, MaxRows) \ {<<>>} }

\* the result lists a batch run over the texts can store, one for every
\* pattern of returning and throwing calls
RECURSIVE ResultLists(_, _, _)
ResultLists(texts, modelName, supported) ==
    IF texts = <<>> THEN {<<>>}
    ELSE { <<BatchResultFor(Head(texts), modelName, outcome)>> \o rest :
               outcome \in CallOutcomes(Head(texts), modelName, supported),
               rest \in ResultLists(Tail(texts), modelName, supported) }

ExportInputs ==
    UNION { ResultLists(parseCSV(content).texts, DefaultModel, supported) :
                content \in ExportFiles, supported \in RelayModelLists }

InitExport ==
    /\ InitUI
    /\ relayModels = <<>>
    /\ exportIn \in ExportInputs
    /\ exportOut = Pending
    /\ csvIn = <<>>
    /\ csvOut = Pending
    /\ localIn = <<>>
    /\ localOut = Pending

\* the Download button: generateResultsCSV(csvResults)
GenerateStep ==
    /\ exportOut = Pending
    /\ exportOut' = generateResultsCSV(exportIn)
    /\ UNCHANGED <<exportIn, csvVars, localVars, uiVars>>

\* the downloaded file is uploaded: parseCSV(content)
ReparseStep ==
    /\ exportOut # Pending
    /\ csvOut = Pending
    /\ csvIn' = exportOut
    /\ csvOut' = parseCSV(exportOut)
    /\ UNCHANGED <<exportVars, localVars, uiVars>>

NextExport == GenerateStep \/ ReparseStep

SpecExport == InitExport /\ [][NextExport]_vars

(***************************************************************************)
(* TextAnalysisService.analyzeSentiment (services/textAnalysisService.js): *)
(* the rule-based heuristic.                                               *)
(***************************************************************************)
positiveWords ==
    { <<"g","o","o","d">>,
      <<"g","r","e","a","t">>,
      <<"e","x","c","e","l","l","e","n","t">>,
      <<"a","m","a","z","i","n","g">>,
      <<"w","o","n","d","e","r","f","u","l">>,
      <<"f","a","n","t","a","s","t","i","c">>,
      <<"a","w","e","s","o","m","e">>,
      <<"l","o","v","e">>,
      <<"l","i","k","e">>,
      <<"h","a","p","p","y">>,
      <<"p","l","e","a","s","e","d">>,
      <<"s","a","t","i","s","f","i","e","d">>,
      <<"p","e","r","f","e","c","t">>,
      <<"b","r","i","l","l","i","a","n","t">>,
      <<"o","u","t","s","t","a","n","d","i","n","g">>,
      <<"s","u","p","e","r","b">>,
      <<"m","a","r","v","e","l","o","u","s">>,
      <<"t","e","r","r","i","f","i","c">>,
      <<"f","a","b","u","l","o","u","s">>,
      <<"i","n","c","r","e","d","i","b","l","e">> }

negativeWords ==
    { <<"b","a","d">>,
      <<"t","e","r","r","i","b","l","e">>,
      <<"a","w","f","u","l">>,
      <<"h","o","r","r","i","b","l","e">>,
      <<"h","a","t","e">>,
      <<"d","i","s","l","i","k","e">>,
      <<"s","a","d">>,
      <<"a","n","g","r","y">>,
      <<"f","r","u","s","t","r","a","t","e","d">>,
      <<"d","i","s","a","p","p","o","i","n","t","e","d">>,
      <<"d","i","s","g","u","s","t","e","d">>,
      <<"a","n","n","o","y","e","d">>,
      <<"f","u","r","i","o","u","s">>,
      <<"u","p","s","e","t">>,
      <<"d","e","p","r","e","s","s","e","d">>,
      <<"m","i","s","e","r","a","b","l","e">>,
      <<"p","a","t","h","e","t","i","c">>,
      <<"u","s","e","l","e","s","s">>,
      <<"w","o","r","t","h","l","e","s","s">>,
      <<"d","r","e","a","d","f","u","l">> }

\* \w of a regular expression: letters, digits and the underscore
WordChars ==
    {UpperCase[k] : k \in 1..Len(UpperCase)}
    \cup {LowerCase[k] : k \in 1..Len(LowerCase)}
    \cup {"0","1","2","3","4","5","6","7","8","9","_"}

\* s.split(/\W+/): the pieces between the runs of non-word characters, an
\* empty piece standing before a leading run and after a trailing one
RECURSIVE SplitNonWord(_)
SplitNonWord(s) ==
    IF \A i \in 1..Len(s) : s[i] \in WordChars
    THEN <<s>>
    ELSE LET k == CHOOSE i \in 1..Len(s) :
                      s[i] \notin WordChars
                      /\ \A j \in 1..(i - 1) : s[j] \in WordChars
             e == CHOOSE i \in k..Len(s) :
                      /\ \A j \in k..i : s[j] \notin WordChars
                      /\ (i = Len(s) \/ s[i + 1] \in WordChars)
         IN  <<SubSeq(s, 1, k - 1)>> \o SplitNonWord(SubSeq(s, e + 1, Len(s)))

\* a slip of this code: a word counts when it contains a listed word
WordScore_Substring(words, list) ==
    Cardinality({i \in 1..Len(words) : \E w \in list : Includes(words[i], w)})

\* the score the forEach counts: the words that are in the list
WordScore(words, list) ==
    Cardinality({i \in 1..Len(words) : words[i] \in list})

\* Math.round(num / den), halves going up (num >= 0, den > 0)
MathRound(num, den) == (2 * num + den) \div (2 * den)

\* a slip of this code: the score is scaled without being divided by the total
MajorityConfidence_NoDivision(score, totalScore) == Max(score * 100, 60)

\* Math.max(Math.round((score / totalScore) * 100), 60)
MajorityConfidence(score, totalScore) ==
    Max(MathRound(score * 100, totalScore), 60)

LocalResult(label, confidence) ==
    [label |-> label, confidence |-> confidence, method |-> "Rule-based Analysis"]

LocalAnalyzeSentiment(txt) ==
    LET words         == SplitNonWord(ToLowerCase(txt))
        positiveScore == WordScore(words, positiveWords)
        negativeScore == WordScore(words, negativeWords)
        totalScore    == positiveScore + negativeScore
    IN  IF totalScore = 0 THEN LocalResult("NEUTRAL", 50)
        ELSE IF positiveScore > negativeScore
        THEN LocalResult("POSITIVE", MajorityConfidence(positiveScore, totalScore))
        ELSE IF negativeScore > positiveScore
        THEN LocalResult("NEGATIVE", MajorityConfidence(negativeScore, totalScore))
        ELSE LocalResult("NEUTRAL", 50)

\* the texts the heuristic is run on: at most MaxWords words with a blank
\* between them, and any concatenation of at most MaxChunks pieces
LocalWords == { <<"g","o","o","d">>, <<"b","a","d">>, <<"x">> }

LocalChunks ==
    { <<"H","A","T","E">>, <<"d","i","s">>, <<"l","i","k","e">>, <<"!">>, <<"_">> }

LocalInputs ==
    { Join(ws, " ") : ws \in SeqsUpTo(LocalWords, MaxWords) }
    \cup { Concat(cs) : cs \in SeqsUpTo(LocalChunks, MaxChunks) }

InitLocal ==
    /\ InitUI
    /\ relayModels = <<>>
    /\ localIn \in LocalInputs
    /\ localOut = Pending
    /\ csvIn = <<>>
    /\ csvOut = Pending
    /\ exportIn = <<>>
    /\ exportOut = Pending

LocalStep ==
    /\ localOut = Pending
    /\ localOut' = LocalAnalyzeSentiment(localIn)
    /\ UNCHANGED <<localIn, csvVars, exportVars, uiVars>>

NextLocal == LocalStep

SpecLocal == InitLocal /\ [][NextLocal]_vars

(***************************************************************************)
(* Properties of the batch runner, checked under Spec and FairSpec.        *)
(***************************************************************************)
Requests(log) == SelectSeq(log, LAMBDA e : e.ev = "request")

Completions(log) == SelectSeq(log, LAMBDA e : e.ev = "completed")

\* a batch run has finished and no other is in progress: batchLog is the log
\* of the run whose results csvResults holds
BatchFinished == batchRun = Null /\ batchLog # <<>>

\* C1: when a batch run over N >= 1 texts has finished, csvResults has
\* exactly N items; item i belongs to text i: for a call that threw it is a
\* placeholder with sentiment "ERROR", confidence 0, the error message and
\* the text, for a call that returned it is the returned result itself.
C1_BatchResults ==
    BatchFinished =>
        LET texts == batchLog[1].texts
            N     == Len(texts)
            asked == Requests(batchLog)
            done  == Completions(batchLog)
        IN  /\ N >= 1
            /\ csvResults # Null
            /\ Len(csvResults.items) = N
            /\ Len(asked) = N
            /\ Len(done) = N
            /\ \A i \in 1..N :
                 LET item == csvResults.items[i]
                     out  == done[i].outcome
                 IN  /\ asked[i].row = i - 1
                     /\ asked[i].text = texts[i]
                     /\ done[i].row = i - 1
                     /\ IF out.threw
                        THEN /\ {"text", "error", "sentiment", "confidence"}
                                    \subseteq DOMAIN item
                             /\ item.sentiment = "ERROR"
                             /\ item.confidence = 0
                             /\ item.error = out.message
                             /\ item.text = texts[i]
                        ELSE item = out.value

\* a finished run of two rows whose first call threw and whose second returned
C1_Witness ==
    /\ BatchFinished
    /\ csvResults # Null
    /\ Len(csvResults.items) = 2
    /\ HasError(csvResults.items[1])
    /\ ~HasError(csvResults.items[2])

\* the log of a run is its start entry followed by request, completion,
\* request, completion, ... over consecutive rows from `base`, nothing else
SerialLog(log, base) ==
    \A p \in 2..Len(log) :
        /\ log[p].ev = (IF p % 2 = 0 THEN "request" ELSE "completed")
        /\ log[p].row = base + ((p - 2) \div 2)

\* C2: within a batch run one /analyze request is issued per row, in
\* increasing row order, each only after the call of the row before it has
\* completed, none repeated and none skipped; a comparison run does the same
\* over the model list.
C2_SerialCalls ==
    /\ batchLog # <<>> =>
         LET texts == batchLog[1].texts
             asked == Requests(batchLog)
         IN  /\ SerialLog(batchLog, 0)
             /\ Len(asked) <= Len(texts)
             /\ \A r \in 1..Len(asked) :
                    /\ asked[r].text = texts[r]
                    /\ asked[r].model_name = batchLog[1].models[1]
             /\ IF batchRun # Null
                THEN Len(batchLog) = 2 * (batchRun.i + 1)
                ELSE Len(batchLog) = 1 + 2 * Len(texts)
    /\ compareLog # <<>> =>
         LET models == compareLog[1].models
             asked  == Requests(compareLog)
         IN  /\ SerialLog(compareLog, 1)
             /\ Len(asked) <= Len(models)
             /\ \A r \in 1..Len(asked) :
                    /\ asked[r].text = compareLog[1].texts[1]
                    /\ asked[r].model_name = models[r]
             /\ IF compareRun # Null
                THEN Len(compareLog) = 2 * compareRun.k
                ELSE Len(compareLog) = 1 + 2 * Len(models)

\* the call of row 1 is in flight after the call of row 0 threw
C2_Witness ==
    /\ batchRun # Null
    /\ batchRun.i = 1
    /\ Len(batchLog) = 4
    /\ batchLog[3].outcome.threw
    /\ batchLog[4].ev = "request"

\* C3 as stated: after the i-th call of a run over N texts has completed the
\* counter is {current: i, total: N}, for every i up to N.
C3_ProgressAfterEveryCall ==
    batchLog # <<>> =>
        csvProgress = [current |-> Len(Completions(batchLog)),
                       total |-> Len(batchLog[1].texts)]

C3_ProgressInvariant ==
    /\ 0 <= csvProgress.current
    /\ csvProgress.current <= csvProgress.total
    /\ IF batchRun # Null
       THEN /\ csvProgress = [current |-> Len(Completions(batchLog)),
                              total |-> Len(batchLog[1].texts)]
            /\ csvProgress.current < csvProgress.total
       ELSE csvProgress = [current |-> 0, total |-> 0]

C3_ProgressStep ==
    (batchRun # Null /\ batchRun' # Null) =>
        /\ csvProgress'.current >= csvProgress.current
        /\ csvProgress'.total = csvProgress.total

\* C3, amended: a run over N texts starts with {0, N}; after its i-th call
\* has completed, i < N, the counter is {i, N}; the completion of the N-th
\* call ends the run and leaves {0, 0}.  Always 0 <= current <= total, and
\* while a run is in progress current never decreases and total is constant.
C3_Progress == []C3_ProgressInvariant /\ [][C3_ProgressStep]_vars

\* one call of a run over two texts has completed, the second is in flight
C3_Witness ==
    /\ batchRun # Null
    /\ Len(Completions(batchLog)) = 1
    /\ csvProgress = [current |-> 1, total |-> 2]

\* the state a run ends in
BatchDone ==
    /\ batchRun = Null
    /\ ~isProcessingCsv
    /\ csvResults # Null
    /\ currentCsvIndex = 0
    /\ csvProgress = [current |-> 0, total |-> 0]

\* the state a run over n texts ends in
BatchDoneWith(n) == BatchDone /\ Len(csvResults.items) = n

\* a step taken while a run is in progress leaves the run in progress on the
\* same texts, or is the completion of its last call and stores one result
\* for each of the texts
C4_NoCancel ==
    batchRun # Null =>
        \/ /\ batchRun' # Null
           /\ batchRun'.csvData = batchRun.csvData
           /\ batchRun'.i >= batchRun.i
        \/ /\ batchRun' = Null
           /\ Len(batchRun.results) + 1 = Len(batchRun.csvData.texts)
           /\ ~isProcessingCsv'
           /\ csvResults' # Null
           /\ Len(csvResults'.items) = Len(batchRun.csvData.texts)
           /\ currentCsvIndex' = 0
           /\ csvProgress' = [current |-> 0, total |-> 0]

\* C4: a batch run started on N texts, every call of which eventually
\* returns or throws, eventually ends with csvResults a list of N results,
\* currentCsvIndex 0, isProcessingCsv false and the counter {0, 0}; no step
\* ends a run before its N-th call has completed.
C4_BatchTerminates ==
    /\ (batchRun # Null) ~> BatchDone
    /\ [][C4_NoCancel]_vars

\* a run over two texts has ended
C4_Witness == BatchFinished /\ BatchDoneWith(2)

\* the object is used as an AnalysisResult: it has no error field
ValidResult(r) ==
    HasError(r)
    \/ /\ {"sentiment", "confidence"} \subseteq DOMAIN r
       /\ r.sentiment \in Sentiments
       /\ r.confidence \in 0..10

Parsed == csvOut # Pending

\* the lines that remain after the blank ones are dropped
Lines == NonBlankLines(csvIn)

\* the cell of a line at a column (1-based), empty when the line is shorter
CellAt(line, col) ==
    LET cells == CellsOf(line)
    IN  IF col <= Len(cells) THEN cells[col] ELSE <<>>

\* the non-empty cells of one column of some lines, in line order
ColumnTexts(lines, col) ==
    SelectSeq([i \in 1..Len(lines) |-> CellAt(lines[i], col)],
              LAMBDA c : c # <<>>)

\* a header name of the line equals a keyword, whatever its case
HasExactHeader(line) ==
    \E k \in 1..Len(CellsOf(line)) : IsTextHeader(CellsOf(line)[k])

\* the first column (1-based) whose header name equals a keyword
FirstExactHeader(line) ==
    CHOOSE k \in 1..Len(CellsOf(line)) :
        /\ IsTextHeader(CellsOf(line)[k])
        /\ \A j \in 1..(k - 1) : ~IsTextHeader(CellsOf(line)[j])

\* C6 as stated: parseCSV either raises the "file is empty" error or returns
\* a CsvBatch whose texts list is not empty.
C6_NeverEmptyTexts ==
    Parsed =>
        IF csvOut.threw
        THEN csvOut.message = EmptyFileMessage
        ELSE Len(csvOut.texts) > 0

\* C7: when every line of the input is empty or whitespace-only (the empty
\* string included), parseCSV raises the empty-file error and returns nothing.
C7_BlankInputThrows ==
    (Parsed /\ \A i \in 1..Len(csvIn) : csvIn[i] \in WhiteSpace) =>
        csvOut = Thrown(EmptyFileMessage)

\* several whitespace-only lines were parsed
C7_Witness ==
    /\ Parsed
    /\ Len(csvIn) >= 3
    /\ \A i \in 1..Len(csvIn) : csvIn[i] \in WhiteSpace
    /\ \E i \in 1..Len(csvIn) : csvIn[i] = "\n"
    /\ \E i \in 1..Len(csvIn) : csvIn[i] = " "
    /\ csvOut.threw

\* what C8 promises of the result
HeaderColumnResult ==
    /\ ~csvOut.threw
    /\ csvOut.hasHeaders = TRUE
    /\ csvOut.warning = undefined
    /\ csvOut.texts = ColumnTexts(Tail(Lines), FirstExactHeader(Lines[1]))
    /\ csvOut.totalRows = Len(csvOut.texts)

\* C8 as stated: with at least two non-blank lines and a header name of the
\* first line equal to a keyword, hasHeaders is true, there is no warning,
\* and texts are the cells of the first matching column of rows 1.. in order.
C8_ExactHeaderAlone ==
    (Parsed /\ Len(Lines) >= 2 /\ HasExactHeader(Lines[1])) => HeaderColumnResult

\* C8, amended: the same, provided the lowercased first line also contains a
\* keyword as a substring (a header name equals a keyword after its quotes
\* are removed, the line is searched with its quotes in place).
C8_ExactHeader ==
    /\ (Parsed /\ Len(Lines) >= 2 /\ HasHeaderIndicators(Lines[1])
            /\ HasExactHeader(Lines[1])) => HeaderColumnResult
    /\ (Parsed /\ csvIn = <<"t","e","x","t","\n","x","\n","y">>) =>
           /\ csvOut.hasHeaders = TRUE
           /\ csvOut.texts = << <<"x">>, <<"y">> >>
           /\ csvOut.totalRows = 2

\* "text\nx\ny" was parsed: a header line and two data lines
C8_Witness ==
    /\ Parsed
    /\ csvIn = <<"t","e","x","t","\n","x","\n","y">>
    /\ csvOut.hasHeaders = TRUE
    /\ Len(csvOut.texts) = 2

\* C9: with at least two non-blank lines and no keyword in the lowercased
\* first line, hasHeaders is false and texts are the non-empty column-0 cells
\* of all non-blank lines, the first included, in line order.
C9_NoHeader ==
    /\ (Parsed /\ Len(Lines) >= 2 /\ ~HasHeaderIndicators(Lines[1])) =>
           /\ ~csvOut.threw
           /\ csvOut.hasHeaders = FALSE
           /\ csvOut.texts = ColumnTexts(Lines, 1)
    /\ (Parsed /\ csvIn = <<"x",",","y","\n","y",",","x">>) =>
           /\ csvOut.hasHeaders = FALSE
           /\ csvOut.texts = << <<"x">>, <<"y">> >>

\* "x,y\ny,x" was parsed: two data lines, no header
C9_Witness ==
    /\ Parsed
    /\ csvIn = <<"x",",","y","\n","y",",","x">>
    /\ csvOut.hasHeaders = FALSE
    /\ Len(csvOut.texts) = 2

\* the first line holds no keyword and no header name equal to one
NoKeywordAtAll ==
    /\ Len(Lines) >= 2
    /\ ~HasHeaderIndicators(Lines[1])
    /\ ~HasExactHeader(Lines[1])

\* C10 as stated: for such an input parseCSV falls back to column 0 and the
\* returned CsvBatch carries a non-empty warning.
C10_FallbackWarns ==
    (Parsed /\ NoKeywordAtAll) =>
        /\ ~csvOut.threw
        /\ csvOut.texts = ColumnTexts(Lines, 1)
        /\ csvOut.warning # undefined

\* C10, amended: such an input is read as data only: parseCSV uses column 0
\* of every line, reports hasHeaders = false and attaches no warning.  The
\* warning belongs to the other fallback: when the lowercased first line
\* contains a keyword but no header name equals one, parseCSV keeps row 0 as
\* headers, takes column 0 of rows 1.. and attaches the non-empty warning.
C10_FallbackWarning ==
    /\ (Parsed /\ NoKeywordAtAll) =>
           /\ ~csvOut.threw
           /\ csvOut.texts = ColumnTexts(Lines, 1)
           /\ csvOut.hasHeaders = FALSE
           /\ csvOut.warning = undefined
    /\ (Parsed /\ Len(Lines) >= 2 /\ HasHeaderIndicators(Lines[1])
            /\ ~HasExactHeader(Lines[1])) =>
           /\ ~csvOut.threw
           /\ csvOut.texts = ColumnTexts(Tail(Lines), 1)
           /\ csvOut.hasHeaders = TRUE
           /\ csvOut.warning = NoTextColumnWarning
           /\ csvOut.warning # undefined

\* three lines without any keyword were parsed into three texts, no warning
C10_Witness ==
    /\ Parsed
    /\ NoKeywordAtAll
    /\ Len(Lines) = 3
    /\ Len(csvOut.texts) = 3
    /\ csvOut.warning = undefined

\* C11: with at least two non-blank lines, a keyword inside the lowercased
\* first line and no header name equal to a keyword, parseCSV does not fail:
\* hasHeaders is true, row 0 is left out, texts are the non-empty column-0
\* cells of rows 1.. in order and warning is a non-empty string.
C11_KeywordWithoutColumn ==
    /\ (Parsed /\ Len(Lines) >= 2 /\ ~HasExactHeader(Lines[1])
            /\ \E k \in 1..Len(headerIndicators) :
                   Includes(ToLowerCase(Lines[1]), headerIndicators[k])) =>
           /\ ~csvOut.threw
           /\ csvOut.hasHeaders = TRUE
           /\ csvOut.texts = ColumnTexts(Tail(Lines), 1)
           /\ csvOut.totalRows = Len(csvOut.texts)
           /\ csvOut.warning \notin {undefined, ""}
    /\ (Parsed /\ csvIn = <<"t","e","x","t","x",",","y","\n","y",",","x">>) =>
           /\ csvOut.texts = << <<"y">> >>
           /\ csvOut.warning = "No text column found, using first column as text"

\* "textx,y\ny,x" was parsed: the header line holds "text" inside a longer name
C11_Witness ==
    /\ Parsed
    /\ csvIn = <<"t","e","x","t","x",",","y","\n","y",",","x">>
    /\ csvOut.hasHeaders = TRUE
    /\ csvOut.warning # undefined
    /\ Len(csvOut.texts) = 1

\* the number of elements of s equal to c
RECURSIVE Count(_, _)
Count(s, c) ==
    IF s = <<>> THEN 0
    ELSE (IF Head(s) = c THEN 1 ELSE 0) + Count(Tail(s), c)

\* t is s without the whitespace at its two ends
IsTrimOf(t, s) ==
    /\ t # <<>>
    /\ t[1] \notin WhiteSpace
    /\ t[Len(t)] \notin WhiteSpace
    /\ \E a \in 0..(Len(s) - Len(t)) :
           /\ SubSeq(s, a + 1, a + Len(t)) = t
           /\ \A i \in (1..a) \cup ((a + Len(t) + 1)..Len(s)) : s[i] \in WhiteSpace

\* C12: when exactly one non-blank line remains, the result is one untitled
\* text row: hasHeaders false, totalRows 1 and texts = [the whole line,
\* trimmed], its commas, quotes and header keywords left as they are.
C12_SingleLine ==
    (Parsed /\ Len(Lines) = 1) =>
        /\ ~csvOut.threw
        /\ csvOut.hasHeaders = FALSE
        /\ csvOut.totalRows = 1
        /\ csvOut.warning = undefined
        /\ Len(csvOut.texts) = 1
        /\ IsTrimOf(csvOut.texts[1], Lines[1])
        /\ \A c \in {",", "\""} :
               Count(csvOut.texts[1], c) = Count(Lines[1], c)

\* a single line holding a keyword, a comma, a quote and outer blanks was parsed
C12_Witness ==
    /\ Parsed
    /\ Len(Lines) = 1
    /\ HasHeaderIndicators(Lines[1])
    /\ Count(Lines[1], ",") >= 1
    /\ Count(Lines[1], "\"") >= 1
    /\ Len(csvOut.texts[1]) < Len(Lines[1])

\* the rows parseCSV reads as data, by the hasHeaders flag of its result
DataRows == IF csvOut.hasHeaders THEN Tail(Lines) ELSE Lines

\* the column (1-based) parseCSV selected, by its result
SelectedColumn ==
    IF csvOut.hasHeaders /\ csvOut.warning = undefined
    THEN FirstExactHeader(Lines[1])
    ELSE 1

\* the row has no cell at the column, or an empty one
Skipped(row, col) ==
    \/ Len(CellsOf(row)) < col
    \/ CellsOf(row)[col] = <<>>

\* what rows contribute one after the other: nothing for a skipped row, its
\* cell at the column for any other
RECURSIVE Contributions(_, _)
Contributions(rows, col) ==
    IF rows = <<>> THEN <<>>
    ELSE (IF Skipped(Head(rows), col) THEN <<>>
          ELSE <<CellsOf(Head(rows))[col]>>)
         \o Contributions(Tail(rows), col)

\* C13: in the multi-line case a data row with fewer columns than the
\* selected index, or with an empty cell there, adds nothing to texts and
\* raises no error; every other data row adds exactly one text, and the
\* texts come in the order of their rows.
C13_RowSkipping ==
    (Parsed /\ Len(Lines) >= 2) =>
        /\ ~csvOut.threw
        /\ csvOut.texts = Contributions(DataRows, SelectedColumn)
        /\ \A i \in 1..Len(csvOut.texts) : csvOut.texts[i] # <<>>
        /\ csvOut.totalRows =
               Cardinality({i \in 1..Len(DataRows) :
                                ~Skipped(DataRows[i], SelectedColumn)})

\* the second column was selected; one data row was too short and was
\* skipped, another gave its text
C13_Witness ==
    /\ Parsed
    /\ Len(Lines) = 3
    /\ ~csvOut.threw
    /\ csvOut.hasHeaders
    /\ SelectedColumn = 2
    /\ \E i \in 1..2 : Len(CellsOf(DataRows[i])) < 2
    /\ Len(csvOut.texts) = 1

(***************************************************************************)
(* Properties of the export, checked under SpecExport.                     *)
(***************************************************************************)
\* the exported file has been parsed again
Reparsed == exportOut # Pending /\ csvOut # Pending

\* the text values of the exported results, in order
ExportedTexts == [i \in 1..Len(exportIn) |-> exportIn[i].text]

\* C14 as stated: for every result list of a batch run,
\* parseCSV(generateResultsCSV(results)) returns texts equal to the results'
\* text values, same length and same order, also when a text holds a comma
\* or a double quote.
C14_RoundTrip ==
    Reparsed =>
        /\ ~csvOut.threw
        /\ csvOut.texts = ExportedTexts

(***************************************************************************)
(* Properties of the local heuristic, checked under SpecLocal.             *)
(***************************************************************************)
Analyzed == localOut # Pending

\* C15: for every non-empty text the heuristic returns an integer
\* confidence in [50, 100] and a label among POSITIVE, NEGATIVE, NEUTRAL.
C15_LocalRange ==
    (Analyzed /\ localIn # <<>>) =>
        /\ localOut.confidence \in 50..100
        /\ localOut.label \in {"POSITIVE", "NEGATIVE", "NEUTRAL"}

\* a text of positive and negative words was analysed with a confidence
\* strictly between the two ends of the range
C15_Witness ==
    /\ Analyzed
    /\ localIn # <<>>
    /\ localOut.label = "NEGATIVE"
    /\ localOut.confidence \in 61..99

\* the tokens of the lowercased text: its maximal runs of word characters
TokenAt(s, i, j) ==
    /\ \A k \in i..j : s[k] \in WordChars
    /\ (i = 1 \/ s[i - 1] \notin WordChars)
    /\ (j = Len(s) \/ s[j + 1] \notin WordChars)

\* how many tokens of the text are in the list
TokenCount(s, list) ==
    Cardinality({<<i, j>> \in (1..Len(s)) \X (1..Len(s)) :
                     /\ i <= j
                     /\ TokenAt(s, i, j)
                     /\ SubSeq(ToLowerCase(s), i, j) \in list})

\* c is 100 * a / b rounded to the nearest integer, a half going up
IsRounded(c, a, b) == 2 * c * b - b <= 200 * a /\ 200 * a < 2 * c * b + b

\* the result as the counts p and n of the tokens in the two lists give it
C16_Result ==
    Analyzed =>
        LET p == TokenCount(localIn, positiveWords)
            n == TokenCount(localIn, negativeWords)
            c == localOut.confidence
        IN  /\ p = n => localOut.label = "NEUTRAL" /\ c = 50
            /\ p > n => /\ localOut.label = "POSITIVE"
                        /\ \/ c = 60 /\ \E r \in 0..60 : IsRounded(r, p, p + n)
                           \/ c > 60 /\ IsRounded(c, p, p + n)
            /\ n > p => /\ localOut.label = "NEGATIVE"
                        /\ \/ c = 60 /\ \E r \in 0..60 : IsRounded(r, n, p + n)
                           \/ c > 60 /\ IsRounded(c, n, p + n)

\* the call leaves its argument and everything else as they were
C16_Frame == localIn' = localIn /\ UNCHANGED <<uiVars, csvVars, exportVars>>

\* C16: with p and n the numbers of tokens in the positive and the negative
\* list, p = n gives NEUTRAL with confidence 50, p > n gives POSITIVE with
\* confidence max(60, round(100 p / (p + n))), n > p gives NEGATIVE with
\* confidence max(60, round(100 n / (p + n))); the call reads and writes
\* nothing but its argument and its result.
C16_LocalFunction == []C16_Result /\ [][C16_Frame]_vars

\* four positive words against three negative ones: the rounded share, 57,
\* is below 60 and the confidence is 60
C16_Witness ==
    /\ Analyzed
    /\ TokenCount(localIn, positiveWords) = 4
    /\ TokenCount(localIn, negativeWords) = 3
    /\ localOut = [label |-> "POSITIVE", confidence |-> 60,
                   method |-> "Rule-based Analysis"]

(***************************************************************************)
(* Connectivity and input validation.                                      *)
(***************************************************************************)
\* the awaited call of handleAnalyze ends with fetch itself rejected
AnalyzeCallUnreachable ==
    /\ AnalyzeCallCompletes
    /\ analysis' = [error |-> FetchFailedMessage]

\* C17: whenever the health check, the fetch of the model list or an
\* /analyze call fails to reach the relay, the interface goes to the
\* 'disconnected' state.
C17_UnreachableDisconnects ==
    [][(ConnectionFails \/ AnalyzeCallUnreachable)
          => backendStatus' = "disconnected"]_vars

\* a request of some handler is pending or was issued
RequestIssued ==
    \/ calls > 0
    \/ analyzeCall # Null \/ compareRun # Null \/ batchRun # Null
    \/ batchLog # <<>> \/ compareLog # <<>>
    \/ isLoading \/ isComparing \/ isProcessingCsv

\* C18: while backendStatus is 'checking' or 'disconnected' no single
\* analysis, no comparison and no batch run has been started and no /analyze
\* request has been issued.
C18_NoRequestUnlessConnected ==
    backendStatus # "connected" => ~RequestIssued

\* the health check failed while a text and a batch with texts are loaded,
\* and nothing was requested
C18_Witness ==
    /\ backendStatus = "disconnected"
    /\ csvData # Null
    /\ Len(csvData.texts) > 0
    /\ ops = MaxOps
    /\ ~RequestIssued

StartsSingle == analyzeCall = Null /\ analyzeCall' # Null
StartsCompare == compareRun = Null /\ compareRun' # Null
StartsBatch == batchRun = Null /\ batchRun' # Null

NoBatchTexts == csvData = Null \/ Len(csvData.texts) = 0

\* empty or whitespace-only
Blank(t) == \A k \in 1..Len(t) : t[k] \in WhiteSpace

C19_BlankText ==
    Blank(text) =>
        /\ ~handleAnalyze /\ ~handleCompareModels
        /\ ~StartsSingle /\ ~StartsCompare
        /\ calls' # calls => StartsBatch

C19_NoTexts ==
    NoBatchTexts =>
        /\ ~StartsBatch
        /\ handleAnalyzeCSV =>
               UNCHANGED <<stateVars, handlerVars, batchLog, compareLog, calls>>

\* C19: with an empty or whitespace-only text handleAnalyze and
\* handleCompareModels issue no request and change no state; with no batch
\* loaded or a batch without texts handleAnalyzeCSV issues no request and
\* changes no state.
C19_EarlyReturns == [][C19_BlankText /\ C19_NoTexts]_vars

\* Analyze CSV was clicked on a batch without texts while the textarea held
\* a blank: the handler returned at its first line and nothing was requested
C19_Witness ==
    /\ earlyReturns > 0
    /\ text = <<" ">>
    /\ NoBatchTexts
    /\ ~RequestIssued

Offers(models, modelName) == \E k \in 1..Len(models) : models[k] = modelName

\* C20: no /analyze request names a model outside the list obtained from
\* /models, the initial selection included.
C20_OnlyAvailableModels ==
    /\ analyzeCall # Null => Offers(availableModels, analyzeCall.selectedModel)
    /\ batchRun # Null => Offers(availableModels, batchRun.selectedModel)

(***************************************************************************)
(* The comparison flow and the propagation of failures.                    *)
(***************************************************************************)
\* a comparison run has finished: compareLog is its log
CompareFinished == compareRun = Null /\ compareLog # <<>>

\* C21: when a comparison run has finished, the table has exactly one entry
\* per model of the list, in list order; the entry of a model comes from one
\* call with the text of the click: the returned result, or for a call that
\* threw an error entry with the message; a failure does not end the loop
\* and leaves the other entries as their own calls made them.
C21_ComparisonTable ==
    CompareFinished =>
        LET models  == compareLog[1].models
            txt     == compareLog[1].texts[1]
            asked   == Requests(compareLog)
            done    == Completions(compareLog)
            entries == modelComparison.entries
        IN  /\ modelComparison # Null
            /\ Len(entries) = Len(models)
            /\ Len(asked) = Len(models)
            /\ Len(done) = Len(models)
            /\ \A k \in 1..Len(models) :
                 /\ entries[k].key = models[k]
                 /\ asked[k].model_name = models[k]
                 /\ asked[k].text = txt
                 /\ entries[k].value =
                        IF done[k].outcome.threw
                        THEN [error |-> done[k].outcome.message]
                        ELSE done[k].outcome.value

\* a finished comparison over two models: the call of the first threw, the
\* call of the second returned a result
C21_Witness ==
    /\ CompareFinished
    /\ Len(modelComparison.entries) = 2
    /\ HasError(modelComparison.entries[1].value)
    /\ ~HasError(modelComparison.entries[2].value)
    /\ "sentiment" \in DOMAIN modelComparison.entries[2].value

\* a request that failed, a non-2xx response, a body that is not JSON
FailedResponse(r) == r.rejected \/ ~r.ok \/ ~r.json

\* C22: every failure of a network call is caught where the call was made
\* and turned into the disconnected status or an error object: the
\* connection check does not go on after a failed call and ends
\* disconnected, no render throws, and a handler that has ended has left its
\* busy flag false.
C22_FailuresRecovered ==
    /\ mounted
    /\ connPc = "models" => ~FailedResponse(connResponse)
    /\ (connPc = "done" /\ FailedResponse(connResponse))
           => backendStatus = "disconnected"
    /\ analyzeCall = Null => ~isLoading
    /\ compareRun = Null => ~isComparing
    /\ batchRun = Null => ~isProcessingCsv

(***************************************************************************)
(* Uploads and the lifetime of the loaded batch.                           *)
(***************************************************************************)
EmptyFileAlert == "Error parsing CSV file. The file appears to be empty."

\* an upload whose parse threw: its alert replaces another message
FailedUpload ==
    /\ handleFileUpload
    /\ lastAlert # EmptyFileAlert
    /\ lastAlert' = EmptyFileAlert

\* C23: when parseCSV throws on an uploaded .csv file the error is shown in
\* an alert, csvData, text, csvResults and analysis keep their values, and
\* the upload starts no /analyze request.
C23_NoPartialUpload ==
    [][FailedUpload =>
          UNCHANGED <<csvData, text, csvResults, analysis, fileContent,
                      handlerVars, batchLog, compareLog, calls>>]_vars

\* a batch loaded with a warning is still there, and nothing was requested, after an
\* empty .csv file was uploaded
C23_Witness ==
    /\ lastAlert = EmptyFileAlert
    /\ csvData # Null
    /\ csvData.warning # undefined
    /\ calls = 0

\* an upload of a file that is not a .csv file: its content becomes the text
OtherFileLoaded ==
    /\ handleFileUpload
    /\ \E file \in Files : ~file.csv /\ text' = file.content /\ text' # <<>>

\* C24: the loaded batch is never changed in place: csvData changes only
\* when an upload stores a new parse result; and csvData no longer holds the
\* batch once another file of any kind was loaded or a text was typed.
C24_BatchLifetime ==
    [][/\ csvData' # csvData => handleFileUpload /\ csvData' # Null
       /\ TypeText => csvData' = Null
       /\ OtherFileLoaded => csvData' = Null]_vars

(***************************************************************************)
(* The single analysis and the connection check.                           *)
(***************************************************************************)
\* handleAnalyze's call has just finished with the response analyzeResponse
AnalyzeJustFinished == analyzeCall # Null /\ analyzeCall' = Null

\* C25: when the /analyze response is non-2xx or its body is not JSON,
\* handleAnalyze stores {error: message}; for a non-2xx response with a JSON
\* body the message is the body's detail, or 'Analysis failed' when there is
\* no detail; a 2xx response with a JSON body is stored as it is.
C25_Step ==
    AnalyzeJustFinished =>
        LET r == analyzeResponse' IN
        IF r.rejected THEN HasError(analysis')
        ELSE IF r.ok /\ r.json THEN analysis' = r.body
        ELSE /\ DOMAIN analysis' = {"error"}
             /\ (~r.ok /\ r.json) =>
                    analysis'.error = IF "detail" \in DOMAIN r.body
                                      THEN r.body.detail
                                      ELSE "Analysis failed"

C25_SingleAnalysisErrors == [][C25_Step]_vars

\* the relay refused the model with a 4xx and a detail, which is shown
C25_Witness ==
    /\ analyzeResponse # Null
    /\ ~analyzeResponse.rejected
    /\ ~analyzeResponse.ok
    /\ analyzeResponse.json
    /\ "detail" \in DOMAIN analyzeResponse.body
    /\ analysis = [error |-> analyzeResponse.body.detail]

\* the awaited call got an answer whose body could be read
Resolved(r) == ~r.rejected /\ r.json

C26_Status ==
    /\ backendStatus \in {"checking", "connected", "disconnected"}
    /\ backendStatus = "checking" <=> connPc # "done"
    /\ connPc = "health" => connResponse = Null
    /\ connPc = "models" => Resolved(connResponse)
    /\ backendStatus = "connected" => Resolved(connResponse)
    /\ backendStatus = "disconnected" => ~Resolved(connResponse)

C26_Step ==
    /\ connPc' # connPc =>
           \/ connPc = "health" /\ connPc' \in {"models", "done"}
           \/ connPc = "models" /\ connPc' = "done"
    /\ connResponse' # connResponse => connPc' # connPc
    /\ backendStatus' # backendStatus =>
           /\ backendStatus = "checking"
           /\ connPc' = "done"
           /\ backendStatus' = "connected" => connPc = "models"

C27_BatchShape ==
    (Parsed /\ ~csvOut.threw) =>
        /\ csvOut.totalRows = Len(csvOut.texts)
        /\ \A i \in 1..Len(csvOut.texts) : csvOut.texts[i] # <<>>

\* a header with a text column, and under it more data lines than texts
\* kept: a row was skipped
C27_Witness ==
    /\ Parsed
    /\ ~csvOut.threw
    /\ csvOut.hasHeaders
    /\ csvOut.warning = undefined
    /\ Len(csvOut.texts) >= 1
    /\ Len(NonBlankLines(csvIn)) > Len(csvOut.texts) + 1

(***************************************************************************)
(* Batch runs against the other operations.                                *)
(***************************************************************************)
C28_Requests ==
    batchLog # <<>> =>
        LET start == batchLog[1]
            asked == Requests(batchLog)
        IN  /\ \A r \in 1..Len(asked) :
                 /\ asked[r].text = start.texts[r]
                 /\ asked[r].model_name = start.models[1]
            /\ BatchFinished =>
                 /\ Len(asked) = Len(start.texts)
                 /\ Len(csvResults.items) = Len(start.texts)
                 /\ \A i \in 1..Len(csvResults.items) :
                        HasError(csvResults.items[i]) =>
                            /\ csvResults.items[i].model_name = start.models[1]
                            /\ csvResults.items[i].text = start.texts[i]

C28_Start ==
    StartsBatch =>
        /\ batchLog'[1].texts = csvData.texts
        /\ batchLog'[1].models = <<selectedModel>>

\* C28: a batch run asks for the rows of the batch and with the model that
\* were loaded and selected when it was started, and writes that model into
\* its placeholders; an upload or a change of the selection during the run
\* changes neither its requests nor the length of its result list.
C28_Snapshot == []C28_Requests /\ [][C28_Start]_vars

\* the second row of a run has been asked after the selection was changed
\* during the run
C28_Witness ==
    /\ batchRun # Null
    /\ Len(batchLog) = 4
    /\ selectedModel # batchLog[1].models[1]
    /\ batchLog[4].model_name = batchLog[1].models[1]

\* The component with a file already loaded when the first counted operation
\* begins: the single-line file x,y was uploaded right after the mount, which
\* stored its batch, cleared the text and showed no alert.
LoadedFile == <<"x", ",", "y">>

InitLoaded ==
    /\ text = <<>>
    /\ analysis = Null
    /\ isLoading = FALSE
    /\ selectedModel = DefaultModel
    /\ availableModels = <<>>
    /\ backendStatus = "checking"
    /\ fileContent = <<>>
    /\ modelComparison = Null
    /\ isComparing = FALSE
    /\ csvData = parseCSV(LoadedFile)
    /\ isProcessingCsv = FALSE
    /\ csvResults = Null
    /\ csvProgress = [current |-> 0, total |-> 0]
    /\ currentCsvIndex = 0
    /\ connPc = "health"
    /\ analyzeCall = Null
    /\ compareRun = Null
    /\ batchRun = Null
    /\ relayModels \in RelayModelLists
    /\ lastAlert = "none"
    /\ batchLog = <<>>
    /\ compareLog = <<>>
    /\ ops = 0
    /\ calls = 0
    /\ earlyReturns = 0
    /\ connResponse = Null
    /\ analyzeResponse = Null
    /\ mounted = TRUE
    /\ csvIn = <<>>
    /\ csvOut = Pending
    /\ exportIn = <<>>
    /\ exportOut = Pending
    /\ localIn = <<>>
    /\ localOut = Pending

SpecLoaded == InitLoaded /\ [][Next]_vars

\* no handler is between two of its steps
NoHandlerInProgress ==
    analyzeCall = Null /\ compareRun = Null /\ batchRun = Null /\ connPc = "done"

\* C29: whenever batch results are stored and no handler is in progress,
\* the analysis shown is the stored result at currentCsvIndex.
C29_ShownIsIndexedResult ==
    (csvResults # Null /\ NoHandlerInProgress) =>
        /\ currentCsvIndex \in 0..(Len(csvResults.items) - 1)
        /\ analysis = csvResults.items[currentCsvIndex + 1]

\* a finished batch run's results are stored and one of them is shown
BatchResultShown ==
    /\ mounted
    /\ backendStatus = "connected"
    /\ batchRun = Null
    /\ csvResults # Null
    /\ currentCsvIndex \in 0..(Len(csvResults.items) - 1)
    /\ analysis = csvResults.items[currentCsvIndex + 1]

\* C30: after a batch run over N texts every result, the ERROR placeholders
\* included, can be reached with Previous and Next: the index stays within
\* 0..N-1, from an index below N-1 the Next button is there to be clicked,
\* and from an index above 0 the Previous button is.
C30_EveryResultReachable ==
    /\ csvResults # Null =>
           currentCsvIndex \in 0..(Len(csvResults.items) - 1)
    /\ BatchResultShown =>
           /\ currentCsvIndex < Len(csvResults.items) - 1 => ENABLED NextResult
           /\ currentCsvIndex > 0 => ENABLED PreviousResult

====
